---- MODULE Spec2Model ----
(***************************************************************************)
(* A model of the documentary generator: the experiment tracker            *)
(* (processors/experiment_tracker.py), the segmenter                       *)
(* (processors/document_processor.py), the asset generators                *)
(* (processors/image_generator.py, audio_generator.py, video_generator.py) *)
(* and the run driven by main() (main.py).                                 *)
(*                                                                         *)
(* Text is a sequence of tokens (one-character strings, with " " and "\n"  *)
(* the whitespace tokens).  Python's None is the string "None".            *)
(***************************************************************************)
EXTENDS Integers, Sequences, FiniteSets, TLC

VARIABLES
    \* ---- ExperimentTracker (the process-wide `tracker`)
    segments,      \* self.segments: list of DocumentarySegment
    has_error,     \* self.has_error
    wandb,         \* self.wandb is not None (a dashboard sink is attached)
    state_file,    \* experiments/<run_id>/state.json
    errors_file,   \* experiments/<run_id>/errors.json
    metrics_file,  \* experiments/<run_id>/metrics.json
    now,           \* the wall clock datetime.now() reads
    call,          \* the last tracker call made: its name and arguments
    ret,           \* how that call ended: a return value or an exception
    n_calls,       \* tracker calls made by the client of TrackerSpec
    n_faults,      \* failures the environment has injected (disk, sink)
    n_start,       \* start_segment calls made so far
    n_saves,       \* history: save_experiment/finish calls that returned, in a row
    issued,        \* history: the index each start_segment call returned
    \* ---- process_documents (the segmenter), called on its own
    sg_pc,         \* "read", "complete" or "done"
    sg_files,      \* the uploaded files: each readable or not, with its text
    sg_combined,   \* combined_text
    sg_completion, \* the completion the service gave (what it was built from)
    sg_out,        \* how process_documents ended
    sg_calls,      \* history: calls made to the completion service
    \* ---- main(): one pass of the script per press of the button
    pc,            \* where main() is
    run,           \* runs started in this process
    temp_dir,      \* the scratch directory temp/: "absent" or "present"
    main_segments, \* segments (line 65)
    m_i,           \* i, the loop index of line 68
    m_segment_idx, \* segment_idx (line 72)
    m_prompt,      \* prompt (line 78)
    m_exc,         \* the exception on its way to the handler of line 149
    run_log,       \* history of this run: what was called, what failed
    \* ---- the asset functions, called per segment as lines 84-86 call them
    st_pc,         \* the call the caller makes next
    st_segments,   \* the segments the caller works through
    st_k,          \* the position (from 0) of the segment being worked on
    st_image_paths, \* image_paths (line 84)
    st_audio_paths, \* audio_paths (line 85)
    st_video_paths, \* video_paths (line 86)
    st_files,      \* the files under temp/: path, whose content, how complete
    st_procs,      \* the ffmpeg processes launched: segment, output, state
    st_prompt,     \* prompt (line 78), as the caller holds it
    st_prompt_calls, \* history: generate_sd_prompts calls made for segment st_k
    st_sent        \* history: the "prompt" last posted to the image service

tvars == <<segments, has_error, wandb, state_file, errors_file, metrics_file,
           now, call, ret, n_calls, n_faults, n_start, n_saves, issued>>

sgvars == <<sg_pc, sg_files, sg_combined, sg_completion, sg_out, sg_calls>>

mvars == <<pc, run, temp_dir, main_segments, m_i, m_segment_idx, m_prompt,
           m_exc, run_log>>

stvars == <<st_pc, st_segments, st_k, st_image_paths, st_audio_paths,
            st_video_paths, st_files, st_procs, st_prompt, st_prompt_calls,
            st_sent>>

vars == <<tvars, sgvars, mvars, stvars>>

(***************************************************************************)
(* Bounds of the model.                                                    *)
(***************************************************************************)
MaxCalls == 3
MaxClock == 1
MaxFaults == 1
MaxPieces == 11
MaxRuns == 2
MaxBatch == 2

None == "None"

\* Python truthiness of an Optional[str]: None and "" are falsy.
Truthy(s) == s # None /\ s # ""

(***************************************************************************)
(* ExperimentTracker                                                       *)
(***************************************************************************)
\* feedback: Dict[str, Any] = None.  A dict is modelled by the two keys the
\* program reads or the spec names; "absent" is a key the dict does not hold.
NoFeedback == [present |-> FALSE, needs_regeneration |-> "absent",
               revised_prompt |-> <<>>]

Feedback(flag, revised) == [present |-> TRUE, needs_regeneration |-> flag,
                            revised_prompt |-> revised]

\* DocumentarySegment(text=text, prompt=prompt): the other fields default.
DocumentarySegment(text, prompt) ==
    [text |-> text, prompt |-> prompt, image_path |-> None,
     audio_path |-> None, video_path |-> None, feedback |-> NoFeedback,
     metrics |-> None]

\* The run id is the creation time of the tracker, formatted.
run_id == "run@0"

\* A file that does not exist, and a file a failed write left cut short.
NoFile == [exists |-> FALSE, intact |-> FALSE]
Truncated == [exists |-> TRUE, intact |-> FALSE]

\* What a write can do: succeed, fail before the file is opened (the old
\* content stays), or fail after open(path, 'w') truncated it.
IoOutcomes == {"ok", "open_fails", "write_fails"}

WriteFile(old, content, io) ==
    CASE io = "ok" -> content
      [] io = "open_fails" -> old
      [] OTHER -> Truncated

\* A reading of the clock: time does not run backwards.
ClockReads == {t \in now..(now + 1) : t <= MaxClock}

\* The JSON document _save_local_state dumps.
Snapshot(segs, t) ==
    [exists |-> TRUE, intact |-> TRUE, run_id |-> run_id, timestamp |-> t,
     segments |-> segs]

\* A variant that opens state.json for appending: the segments written pile
\* up behind those the file already holds.
save_local_state_Appending(file, segs, t, io) ==
    WriteFile(file,
              [Snapshot(segs, t) EXCEPT
                 !.segments = (IF file.exists /\ file.intact THEN file.segments ELSE <<>>)
                              \o segs],
              io)

\* _save_local_state: open(state_path, 'w') and json.dump of the snapshot.
save_local_state(file, segs, t, io) == WriteFile(file, Snapshot(segs, t), io)

\* update_segment's three optional arguments; each defaults to None.
Paths(image_path, audio_path, video_path) ==
    [image_path |-> image_path, audio_path |-> audio_path, video_path |-> video_path]
NoPaths == Paths(None, None, None)

Return(idx, flag) == [kind |-> "return", idx |-> idx, flag |-> flag, exc |-> None]
Raise(exc) == [kind |-> "raise", idx |-> -1, flag |-> FALSE, exc |-> exc]
NoCall == [op |-> "none", idx |-> -1, feedback |-> NoFeedback, paths |-> NoPaths]
NoRet == [kind |-> "none", idx |-> -1, flag |-> FALSE, exc |-> None]

\* A variant that returns len(self.segments).
StartSegmentResult_OffByOne(segs) == Len(segs)

\* start_segment's return value.
StartSegmentResult(segs) == Len(segs) - 1

start_segment(text, prompt, io, t, sink_raises) ==
    LET segs == Append(segments, DocumentarySegment(text, prompt))
        out  == IF io # "ok" THEN Raise("OSError")
                ELSE IF wandb /\ sink_raises THEN Raise("SinkError")
                ELSE Return(StartSegmentResult(segs), FALSE)
    IN  /\ segments' = segs
        /\ state_file' = save_local_state(state_file, segs, t, io)
        /\ now' = t
        /\ call' = [op |-> "start_segment", idx |-> -1, feedback |-> NoFeedback, paths |-> NoPaths]
        /\ ret' = out
        /\ n_start' = n_start + 1
        /\ n_saves' = 0
        /\ issued' = IF out.kind = "return"
                     THEN issued \cup {[ordinal |-> n_start, index |-> out.idx,
                                        text |-> text]}
                     ELSE issued
        /\ UNCHANGED <<has_error, wandb, errors_file, metrics_file>>

\* self.segments[segment_idx]: the 1-based position a Python index denotes,
\* 0 when it raises IndexError.  Negative indices count from the end.
PyIndex(segs, idx) ==
    IF 0 <= idx /\ idx < Len(segs) THEN idx + 1
    ELSE IF idx < 0 /\ -idx <= Len(segs) THEN Len(segs) + idx + 1
    ELSE 0

\* A variant that assigns the three arguments without the `if x_path:` tests.
UpdatedSegment_Unconditional(seg, image_path, audio_path, video_path) ==
    [seg EXCEPT !.image_path = image_path,
                !.audio_path = audio_path,
                !.video_path = video_path]

\* The three `if x_path:` assignments of update_segment.
UpdatedSegment(seg, image_path, audio_path, video_path) ==
    [seg EXCEPT
       !.image_path = IF Truthy(image_path) THEN image_path ELSE @,
       !.audio_path = IF Truthy(audio_path) THEN audio_path ELSE @,
       !.video_path = IF Truthy(video_path) THEN video_path ELSE @]

update_segment(segment_idx, image_path, audio_path, video_path, io, t, sink_raises) ==
    LET pos  == PyIndex(segments, segment_idx)
        segs == [segments EXCEPT ![pos] =
                    UpdatedSegment(@, image_path, audio_path, video_path)]
        \* the image and audio sink calls sit in try/except; the video one does not
        sink_fails == wandb /\ Truthy(video_path) /\ sink_raises
    IN  /\ call' = [op |-> "update_segment", idx |-> segment_idx,
                    feedback |-> NoFeedback,
                    paths |-> Paths(image_path, audio_path, video_path)]
        /\ n_start' = n_start
        /\ n_saves' = 0
        /\ issued' = issued
        /\ UNCHANGED <<has_error, wandb, errors_file, metrics_file>>
        /\ IF pos = 0
           THEN /\ ret' = Raise("IndexError")
                /\ UNCHANGED <<segments, state_file, now>>
           ELSE IF sink_fails
           THEN /\ segments' = segs
                /\ ret' = Raise("SinkError")
                /\ UNCHANGED <<state_file, now>>
           ELSE /\ segments' = segs
                /\ state_file' = save_local_state(state_file, segs, t, io)
                /\ now' = t
                /\ ret' = IF io # "ok" THEN Raise("OSError") ELSE Return(-1, FALSE)

\* A variant whose default is True: feedback.get("needs_regeneration", True).
NeedsRegeneration_DefaultTrue(feedback) == feedback.needs_regeneration # "false"

\* bool(feedback.get("needs_regeneration", False))
NeedsRegeneration(feedback) == feedback.needs_regeneration = "true"

add_feedback(segment_idx, feedback, io, t, sink_raises) ==
    LET pos  == PyIndex(segments, segment_idx)
        segs == [segments EXCEPT ![pos].feedback = feedback]
    IN  /\ call' = [op |-> "add_feedback", idx |-> segment_idx,
                    feedback |-> feedback, paths |-> NoPaths]
        /\ n_start' = n_start
        /\ n_saves' = 0
        /\ issued' = issued
        /\ UNCHANGED <<has_error, wandb, errors_file, metrics_file>>
        /\ IF pos = 0
           THEN /\ ret' = Raise("IndexError")
                /\ UNCHANGED <<segments, state_file, now>>
           ELSE /\ segments' = segs
                /\ state_file' = save_local_state(state_file, segs, t, io)
                /\ now' = t
                /\ ret' = IF io # "ok" THEN Raise("OSError")
                          ELSE IF wandb /\ sink_raises THEN Raise("SinkError")
                          ELSE Return(-1, NeedsRegeneration(feedback))

\* The errors.json log_error writes: the old list (empty when the file does
\* not exist) with the new entry appended.
ErrorsDocument(old, error_message, t) ==
    [exists |-> TRUE, intact |-> TRUE,
     errors |-> Append(IF old.exists THEN old.errors ELSE <<>>,
                       [error |-> error_message, timestamp |-> t])]

log_error(error_message, io, t) ==
    /\ has_error' = TRUE
    /\ now' = t
    \* json.load of a file cut short raises; the except clause swallows it
    /\ errors_file' = IF errors_file.exists /\ ~errors_file.intact
                      THEN errors_file
                      ELSE WriteFile(errors_file,
                                     ErrorsDocument(errors_file, error_message, t), io)
    /\ call' = [op |-> "log_error", idx |-> -1, feedback |-> NoFeedback, paths |-> NoPaths]
    /\ ret' = Return(-1, FALSE)
    /\ n_saves' = 0
    /\ UNCHANGED <<segments, wandb, state_file, metrics_file, n_start, issued>>

log_metrics(metrics, io) ==
    /\ metrics_file' = WriteFile(metrics_file,
                                 [exists |-> TRUE, intact |-> TRUE,
                                  metrics |-> metrics], io)
    /\ call' = [op |-> "log_metrics", idx |-> -1, feedback |-> NoFeedback, paths |-> NoPaths]
    /\ ret' = Return(-1, FALSE)
    /\ n_saves' = 0
    /\ UNCHANGED <<segments, has_error, wandb, state_file, errors_file, now,
                   n_start, issued>>

\* save_experiment: _save_local_state, then a sink call inside try/except.
save_experiment(io, t) ==
    /\ state_file' = save_local_state(state_file, segments, t, io)
    /\ now' = t
    /\ call' = [op |-> "save_experiment", idx |-> -1, feedback |-> NoFeedback, paths |-> NoPaths]
    /\ ret' = IF io # "ok" THEN Raise("OSError") ELSE Return(-1, FALSE)
    /\ n_saves' = IF io = "ok" THEN n_saves + 1 ELSE 0
    /\ UNCHANGED <<segments, has_error, wandb, errors_file, metrics_file,
                   n_start, issued>>

\* A variant of finish that hands back a tracker ready for a new run.
finish_Resets(io, t) ==
    /\ state_file' = save_local_state(state_file, segments, t, io)
    /\ now' = t
    /\ call' = [op |-> "finish", idx |-> -1, feedback |-> NoFeedback, paths |-> NoPaths]
    /\ ret' = IF io # "ok" THEN Raise("OSError") ELSE Return(-1, FALSE)
    /\ n_saves' = IF io = "ok" THEN n_saves + 1 ELSE 0
    /\ has_error' = FALSE
    /\ UNCHANGED <<segments, wandb, errors_file, metrics_file, n_start, issued>>

\* finish: save_experiment, then _cleanup (which swallows the sink's errors).
finish(io, t) ==
    /\ state_file' = save_local_state(state_file, segments, t, io)
    /\ now' = t
    /\ call' = [op |-> "finish", idx |-> -1, feedback |-> NoFeedback, paths |-> NoPaths]
    /\ ret' = IF io # "ok" THEN Raise("OSError") ELSE Return(-1, FALSE)
    /\ n_saves' = IF io = "ok" THEN n_saves + 1 ELSE 0
    /\ UNCHANGED <<segments, has_error, wandb, errors_file, metrics_file,
                   n_start, issued>>

\* ExperimentTracker.__init__: the sink may or may not initialise.
TrackerInit ==
    /\ segments = <<>>
    /\ has_error = FALSE
    /\ wandb \in BOOLEAN
    /\ state_file = NoFile
    /\ errors_file = NoFile
    /\ metrics_file = NoFile
    /\ now = 0
    /\ call = NoCall
    /\ ret = NoRet
    /\ n_calls = 0
    /\ n_faults = 0
    /\ n_start = 0
    /\ n_saves = 0
    /\ issued = {}

(***************************************************************************)
(* process_documents                                                       *)
(***************************************************************************)
IsSpace(c) == c \in {" ", "\n", "\t"}

RECURSIVE LStrip(_)
LStrip(s) == IF s # <<>> /\ IsSpace(Head(s)) THEN LStrip(Tail(s)) ELSE s

RECURSIVE RStrip(_)
RStrip(s) ==
    IF s # <<>> /\ IsSpace(s[Len(s)]) THEN RStrip(SubSeq(s, 1, Len(s) - 1)) ELSE s

\* str.strip()
Strip(s) == RStrip(LStrip(s))

\* str.split("\n\n"): cut at each blank-line separator, left to right; `cur`
\* is the part read since the last separator.
RECURSIVE SplitFrom(_, _, _)
SplitFrom(s, cur, i) ==
    IF i > Len(s) THEN <<cur>>
    ELSE IF i < Len(s) /\ s[i] = "\n" /\ s[i + 1] = "\n"
         THEN <<cur>> \o SplitFrom(s, <<>>, i + 2)
         ELSE SplitFrom(s, Append(cur, s[i]), i + 1)

Split(s) == SplitFrom(s, <<>>, 1)

\* A variant that keeps the parts that are blank: [s.strip() for s in ...].
ParseSegments_Unfiltered(content) ==
    LET parts == Split(content)
    IN  [k \in 1..Len(parts) |-> Strip(parts[k])]

\* [s.strip() for s in content.split("\n\n") if s.strip()]
ParseSegments(content) ==
    LET parts == Split(content)
        stripped == [k \in 1..Len(parts) |-> Strip(parts[k])]
    IN  SelectSeq(stripped, LAMBDA x : x # <<>>)

TargetCount == 10
Placeholder == <<"[Segment content to be generated]">>

\* A variant that pads and forgets the final segments[:10].
EnsureTen_Untruncated(segs) ==
    IF Len(segs) < TargetCount
    THEN segs \o [k \in 1..(TargetCount - Len(segs)) |-> Placeholder]
    ELSE segs

\* The padding and the final segments[:10].
EnsureTen(segs) ==
    LET padded == IF Len(segs) < TargetCount
                  THEN segs \o [k \in 1..(TargetCount - Len(segs)) |-> Placeholder]
                  ELSE segs
    IN  SubSeq(padded, 1, TargetCount)

Returned(segs) == [kind |-> "return", segments |-> segs, exc |-> None]
Raised(exc) == [kind |-> "raise", segments |-> <<>>, exc |-> exc]
NotEnded == [kind |-> "none", segments |-> <<>>, exc |-> None]

\* The loop over file_paths: the first unreadable file raises; otherwise
\* combined_text is every text followed by "\n\n".
RECURSIVE CombinedText(_)
CombinedText(files) ==
    IF files = <<>> THEN <<>>
    ELSE Head(files).text \o <<"\n", "\n">> \o CombinedText(Tail(files))

AllReadable(files) == \A k \in 1..Len(files) : files[k].ok

\* The message of the exception line 82 raises.
EmptyInput == "No content could be extracted from the uploaded documents"

\* A variant without the blank check of lines 81-82.
Segmented_Unchecked(combined_text, completion_ok, content) ==
    IF ~completion_ok
    THEN Raised("Failed to process documents: completion error")
    ELSE IF ParseSegments(content) = <<>>
    THEN Raised("Failed to process documents: No segments were generated")
    ELSE Returned(EnsureTen(ParseSegments(content)))

\* The messages of the exception line 112 raises: what the completion call
\* raised, or the "No segments were generated" of line 102, wrapped.
GenerationErrors ==
    {"Failed to process documents: completion error",
     "Failed to process documents: No segments were generated"}

\* What follows the reading of the files: the blank check, the completion
\* call and the parsing of its output.
Segmented(combined_text, completion_ok, content) ==
    IF Strip(combined_text) = <<>>
    THEN Raised(EmptyInput)
    ELSE IF ~completion_ok
    THEN Raised("Failed to process documents: completion error")
    ELSE IF ParseSegments(content) = <<>>
    THEN Raised("Failed to process documents: No segments were generated")
    ELSE Returned(EnsureTen(ParseSegments(content)))

process_documents(files, completion_ok, content) ==
    IF ~AllReadable(files) THEN Raised("file error")
    ELSE Segmented(CombinedText(files), completion_ok, content)

(***************************************************************************)
(* Completions to segment.  A completion is built from a row of pieces     *)
(* joined by blank lines: piece k is blank or holds the text Core(k),      *)
(* wrapped in whitespace in a way that varies with k and the style.        *)
(***************************************************************************)
LabelChars == <<"a", "b", "c", "d", "e", "f", "g", "h", "i", "j", "k", "l",
                "m", "n", "o", "p">>
Label(k) == LabelChars[((k - 1) % Len(LabelChars)) + 1]
Styles == 0..2

Core(k, style) ==
    IF (k + style) % 3 = 1 THEN <<Label(k), " ", Label(k)>> ELSE <<Label(k)>>

Piece(k, filled, style) ==
    IF filled
    THEN CASE (k + style) % 3 = 0 -> Core(k, style)
           [] (k + style) % 3 = 1 -> <<" ">> \o Core(k, style)
           [] OTHER -> <<"\t">> \o Core(k, style) \o <<"\n">>
    ELSE CASE (k + style) % 3 = 0 -> <<>>
           [] (k + style) % 3 = 1 -> <<" ">>
           [] OTHER -> <<"\n">>

RECURSIVE RenderFrom(_, _, _)
RenderFrom(bits, style, k) ==
    IF k > Len(bits) THEN <<>>
    ELSE Piece(k, bits[k], style)
         \o (IF k < Len(bits) THEN <<"\n", "\n">> ELSE <<>>)
         \o RenderFrom(bits, style, k + 1)

\* response.choices[0].message.content
Content(completion) == RenderFrom(completion.bits, completion.style, 1)

ApiError == [ok |-> FALSE, bits |-> <<>>, style |-> 0]
Completions ==
    {ApiError} \cup
    {[ok |-> TRUE, bits |-> b, style |-> st] :
        b \in UNION {[1..n -> BOOLEAN] : n \in 0..MaxPieces}, st \in Styles}

Unreadable == [ok |-> FALSE, text |-> <<>>]
File(text) == [ok |-> TRUE, text |-> text]
FileLists ==
    {<<>>, <<File(<<" ", "\n">>)>>, <<File(<<"a">>)>>, <<Unreadable>>,
     <<File(<<>>), File(<<"a", " ", "b">>)>>, <<File(<<"a">>), Unreadable>>,
     <<File(<<"\n">>), File(<<" ">>)>>, <<File(<<" ">>), Unreadable>>}

SegmenterInit ==
    /\ sg_pc = "read"
    /\ sg_files \in FileLists
    /\ sg_combined = <<>>
    /\ sg_completion = ApiError
    /\ sg_out = NotEnded
    /\ sg_calls = 0

\* Lines 59-82: read the files, refuse blank input.
ReadDocuments ==
    /\ sg_pc = "read"
    /\ IF ~AllReadable(sg_files)
       THEN /\ sg_out' = Raised("file error")
            /\ sg_pc' = "done"
            /\ UNCHANGED sg_combined
       ELSE /\ sg_combined' = CombinedText(sg_files)
            /\ IF Strip(CombinedText(sg_files)) = <<>>
               THEN /\ sg_out' = process_documents(sg_files, FALSE, <<>>)
                    /\ sg_pc' = "done"
               ELSE /\ sg_out' = sg_out
                    /\ sg_pc' = "complete"
    /\ UNCHANGED <<sg_files, sg_completion, sg_calls, tvars, mvars, stvars>>

\* Lines 84-112: the completion call and what is made of its answer.
CompleteAndParse ==
    /\ sg_pc = "complete"
    /\ \E completion \in Completions :
          /\ sg_completion' = completion
          /\ sg_out' = process_documents(sg_files, completion.ok, Content(completion))
    /\ sg_calls' = sg_calls + 1
    /\ sg_pc' = "done"
    /\ UNCHANGED <<sg_files, sg_combined, tvars, mvars, stvars>>

SegmenterNext == ReadDocuments \/ CompleteAndParse

SegmenterIdle ==
    /\ sg_pc = "off"
    /\ sg_files = <<>>
    /\ sg_combined = <<>>
    /\ sg_completion = ApiError
    /\ sg_out = NotEnded
    /\ sg_calls = 0

(***************************************************************************)
(* generate_images, generate_voiceovers, create_video_segments             *)
(***************************************************************************)
\* f"temp/image_{i}.png", f"temp/audio_{i}.mp3", f"temp/segment_{i}.mp4"
ImageNames == <<"temp/image_0.png", "temp/image_1.png", "temp/image_2.png",
                "temp/image_3.png">>
AudioNames == <<"temp/audio_0.mp3", "temp/audio_1.mp3", "temp/audio_2.mp3",
                "temp/audio_3.mp3">>
VideoNames == <<"temp/segment_0.mp4", "temp/segment_1.mp4", "temp/segment_2.mp4",
                "temp/segment_3.mp4">>
ImagePath(n) == ImageNames[n + 1]
AudioPath(n) == AudioNames[n + 1]
VideoPath(n) == VideoNames[n + 1]

\* The prompt the completion service writes for a text, and the prompts it
\* can write for it: the service does not repeat itself word for word.
PromptFor(text) == <<"prompt for">> \o text
PromptOutputs(text) == {PromptFor(text), PromptFor(text) \o <<"again">>}

\* The paths generate_images returns for a list of segments: the name holds
\* the position in the list it was given.
generate_images(segs) == [n \in 1..Len(segs) |-> ImagePath(n - 1)]
generate_voiceovers(segs) == [n \in 1..Len(segs) |-> AudioPath(n - 1)]

Min(a, b) == IF a < b THEN a ELSE b

\* create_video_segments: one output per pair of zip(image_paths, audio_paths).
create_video_segments(image_paths, audio_paths) ==
    [n \in 1..Min(Len(image_paths), Len(audio_paths)) |-> VideoPath(n - 1)]

\* open(path, "wb") and a write: the file at `path` now holds `seg`'s content.
Written(files, paths, seg, state) ==
    {f \in files : \A n \in 1..Len(paths) : f.path # paths[n]}
    \cup {[path |-> paths[n], seg |-> seg, state |-> state] : n \in 1..Len(paths)}

\* The processes create_video_segments leaves behind: it awaits the launch
\* of each ffmpeg (asyncio.create_subprocess_exec), not its exit.
Launched(procs, paths, seg) ==
    procs \o [n \in 1..Len(paths) |-> [seg |-> seg, out |-> paths[n], state |-> "running"]]

StagesIdle ==
    /\ st_pc = "off"
    /\ st_segments = <<>>
    /\ st_k = 0
    /\ st_image_paths = <<>>
    /\ st_audio_paths = <<>>
    /\ st_video_paths = <<>>
    /\ st_files = {}
    /\ st_procs = <<>>
    /\ st_prompt = <<>>
    /\ st_prompt_calls = 0
    /\ st_sent = <<>>

StageTexts == {<<"a">>, <<"b">>}

StagesInit ==
    /\ st_pc = "generate_sd_prompts"
    /\ st_segments \in UNION {[1..n -> StageTexts] : n \in 1..MaxBatch}
    /\ st_k = 0
    /\ st_image_paths = <<>>
    /\ st_audio_paths = <<>>
    /\ st_video_paths = <<>>
    /\ st_files = {}
    /\ st_procs = <<>>
    /\ st_prompt = <<>>
    /\ st_prompt_calls = 0
    /\ st_sent = <<>>

\* Line 78: prompt = await generate_sd_prompts(segment, client).
SynthesizePrompt ==
    /\ st_pc = "generate_sd_prompts"
    /\ st_k < Len(st_segments)
    /\ st_prompt_calls' = st_prompt_calls + 1
    /\ \E ok \in BOOLEAN, p \in PromptOutputs(st_segments[st_k + 1]) :
          IF ok
          THEN /\ st_prompt' = p
               /\ st_pc' = "generate_images"
          ELSE /\ st_pc' = "failed"
               /\ UNCHANGED st_prompt
    /\ UNCHANGED <<st_segments, st_k, st_image_paths, st_audio_paths, st_video_paths,
                   st_files, st_procs, st_sent, tvars, sgvars, mvars>>

\* Line 84: generate_images([segment], char_image_path).  It asks
\* generate_sd_prompts for a prompt of its own (image_generator.py:30) and
\* posts that one; the image service or the download can fail.
GenerateImages ==
    /\ st_pc = "generate_images"
    /\ st_prompt_calls' = st_prompt_calls + 1
    /\ \E ok \in BOOLEAN, p \in PromptOutputs(st_segments[st_k + 1]) :
          /\ st_sent' = p
          /\ IF ok
             THEN /\ st_image_paths' = generate_images(<<st_segments[st_k + 1]>>)
                  /\ st_files' = Written(st_files, generate_images(<<st_segments[st_k + 1]>>),
                                          st_k, "complete")
                  /\ st_pc' = "generate_voiceovers"
             ELSE /\ st_pc' = "failed"
                  /\ UNCHANGED <<st_image_paths, st_files>>
    /\ UNCHANGED <<st_segments, st_k, st_audio_paths, st_video_paths, st_procs,
                   st_prompt, tvars, sgvars, mvars>>

\* Line 85: generate_voiceovers([segment], voice).
GenerateVoiceovers ==
    /\ st_pc = "generate_voiceovers"
    /\ \E ok \in BOOLEAN :
          IF ok
          THEN /\ st_audio_paths' = generate_voiceovers(<<st_segments[st_k + 1]>>)
               /\ st_files' = Written(st_files, generate_voiceovers(<<st_segments[st_k + 1]>>),
                                       st_k, "complete")
               /\ st_pc' = "create_video_segments"
          ELSE /\ st_pc' = "failed"
               /\ UNCHANGED <<st_audio_paths, st_files>>
    /\ UNCHANGED <<st_segments, st_k, st_image_paths, st_video_paths, st_procs,
                   st_prompt, st_prompt_calls, st_sent, tvars, sgvars, mvars>>

\* Line 86: create_video_segments(image_paths, audio_paths) launches ffmpeg
\* and returns the output paths; the launch itself can fail.
CreateVideoSegments ==
    /\ st_pc = "create_video_segments"
    /\ \E ok \in BOOLEAN :
          IF ok
          THEN /\ st_video_paths' = create_video_segments(st_image_paths, st_audio_paths)
               /\ st_procs' = Launched(st_procs,
                                      create_video_segments(st_image_paths, st_audio_paths),
                                      st_k)
               /\ st_pc' = "next"
          ELSE /\ st_pc' = "failed"
               /\ UNCHANGED <<st_video_paths, st_procs>>
    /\ UNCHANGED <<st_segments, st_k, st_image_paths, st_audio_paths, st_files,
                   st_prompt, st_prompt_calls, st_sent, tvars, sgvars, mvars>>

\* Line 68: the loop goes on to the next segment, or ends.
NextSegment ==
    /\ st_pc = "next"
    /\ st_k' = st_k + 1
    /\ st_pc' = IF st_k + 1 < Len(st_segments) THEN "generate_sd_prompts" ELSE "done"
    /\ st_prompt_calls' = 0
    /\ UNCHANGED <<st_segments, st_image_paths, st_audio_paths, st_video_paths,
                   st_files, st_procs, st_prompt, st_sent, tvars, sgvars, mvars>>

\* An ffmpeg process, on its own schedule: it writes its output file, then
\* exits, with the file complete or with an error.
FfmpegWrites ==
    \E n \in 1..Len(st_procs) :
       /\ st_procs[n].state = "running"
       \* once temp/ is removed no file appears under it any more
       /\ st_files' = IF st_pc = "cleaned" THEN st_files
                      ELSE Written(st_files, <<st_procs[n].out>>, st_procs[n].seg, "partial")
       /\ st_procs' = [st_procs EXCEPT ![n].state = "writing"]
       /\ UNCHANGED <<st_pc, st_segments, st_k, st_image_paths, st_audio_paths,
                      st_video_paths, st_prompt, st_prompt_calls, st_sent,
                      tvars, sgvars, mvars>>

FfmpegExits ==
    \E n \in 1..Len(st_procs), ok \in BOOLEAN :
       /\ st_procs[n].state \in {"running", "writing"}
       /\ st_procs' = [st_procs EXCEPT ![n].state = IF ok THEN "exited" ELSE "failed"]
       /\ st_files' = IF ok /\ st_procs[n].state = "writing" /\ st_pc # "cleaned"
                      THEN Written(st_files, <<st_procs[n].out>>, st_procs[n].seg, "complete")
                      ELSE st_files
       /\ UNCHANGED <<st_pc, st_segments, st_k, st_image_paths, st_audio_paths,
                      st_video_paths, st_prompt, st_prompt_calls, st_sent,
                      tvars, sgvars, mvars>>

\* Lines 138-147: after the loop the videos of video_paths are opened and
\* offered for download; a file that is not there raises.
OfferDownloads ==
    /\ st_pc = "done"
    /\ st_pc' = IF \A n \in 1..Len(st_video_paths) :
                     \E f \in st_files : f.path = st_video_paths[n]
                THEN "download" ELSE "failed"
    /\ UNCHANGED <<st_segments, st_k, st_image_paths, st_audio_paths, st_video_paths,
                   st_files, st_procs, st_prompt, st_prompt_calls, st_sent,
                   tvars, sgvars, mvars>>

\* Lines 153-159: the finally block removes temp/ with everything in it,
\* after the downloads were offered or after a failure.
RemoveScratch ==
    /\ st_pc \in {"download", "failed"}
    /\ st_pc' = "cleaned"
    /\ st_files' = {}
    /\ UNCHANGED <<st_segments, st_k, st_image_paths, st_audio_paths, st_video_paths,
                   st_procs, st_prompt, st_prompt_calls, st_sent,
                   tvars, sgvars, mvars>>

StagesNext ==
    \/ OfferDownloads
    \/ RemoveScratch
    \/ SynthesizePrompt
    \/ GenerateImages
    \/ GenerateVoiceovers
    \/ CreateVideoSegments
    \/ NextSegment
    \/ FfmpegWrites
    \/ FfmpegExits

(***************************************************************************)
(* main()                                                                  *)
(***************************************************************************)
\* completions counts the calls to the text-completion service and delays the
\* asyncio.sleep calls executed; main() itself never sleeps, the two sleeps
\* are in generate_images and generate_voiceovers, behind line 81.
NoRun == [base |-> 0, n_start |-> 0, n_prompt |-> 0, docs_failed |-> FALSE,
          failed_segment |-> -1, injected |-> FALSE, cleanup |-> "none",
          final_save |-> "none", completions |-> 0, delays |-> 0]

\* The history of a run that starts with `n` segments already in the tracker.
NewRun(n) == [NoRun EXCEPT !.base = n]

MainIdle ==
    /\ pc = "idle"
    /\ run = 0
    /\ temp_dir = "absent"
    /\ main_segments = <<>>
    /\ m_i = 0
    /\ m_segment_idx = -1
    /\ m_prompt = <<>>
    /\ m_exc = None
    /\ run_log = NoRun

\* What the user uploads and what the completion service answers in a run.
MainFileLists == {<<File(<<"a">>)>>, <<Unreadable>>, <<File(<<" ">>)>>}
MainCompletions ==
    {ApiError,
     [ok |-> TRUE, bits |-> [k \in 1..MaxPieces |-> TRUE], style |-> 0],
     [ok |-> TRUE, bits |-> [k \in 1..MaxPieces |-> k % 4 = 1], style |-> 1],
     [ok |-> TRUE, bits |-> <<FALSE, FALSE>>, style |-> 0]}

\* The failures left to the environment, which fails at most MaxFaults
\* times: a write can fail, and the sink's log call can raise where a sink is
\* attached.
IoChoices == IF n_faults < MaxFaults THEN IoOutcomes ELSE {"ok"}
SinkChoices == IF wandb /\ n_faults < MaxFaults THEN BOOLEAN ELSE {FALSE}
Faults(io, sink_raises) == IF io # "ok" \/ sink_raises THEN n_faults + 1 ELSE n_faults

\* Line 43: the button is pressed with files and a character image uploaded.
PressGenerate ==
    /\ pc \in {"idle", "done"}
    /\ run < MaxRuns
    /\ run' = run + 1
    /\ pc' = "setup"
    /\ main_segments' = <<>>
    /\ m_i' = 0
    /\ m_segment_idx' = -1
    /\ m_prompt' = <<>>
    /\ m_exc' = None
    /\ run_log' = NewRun(Len(segments))
    /\ UNCHANGED <<temp_dir, tvars, sgvars, stvars>>

\* Lines 46-61: make temp/ and write the uploads into it.
Setup ==
    /\ pc = "setup"
    /\ \E outcome \in {"ok", "mkdir_fails", "write_fails"} :
          /\ temp_dir' = IF outcome = "mkdir_fails" THEN temp_dir ELSE "present"
          /\ pc' = IF outcome = "ok" THEN "process_documents" ELSE "except"
          /\ m_exc' = IF outcome = "ok" THEN m_exc ELSE "OSError"
          /\ run_log' = [run_log EXCEPT !.injected = @ \/ outcome # "ok"]
    /\ UNCHANGED <<run, main_segments, m_i, m_segment_idx, m_prompt, tvars, sgvars, stvars>>

\* A variant in which the failure of process_documents is swallowed.
AfterDocuments_Continues(out) == "start_segment"

\* Where control goes when process_documents has ended (line 65): into the
\* loop, or to the handler of line 149.
AfterDocuments(out) == IF out.kind = "raise" THEN "except" ELSE "start_segment"

ProcessDocuments ==
    /\ pc = "process_documents"
    /\ \E files \in MainFileLists, completion \in MainCompletions :
          LET out == process_documents(files, completion.ok, Content(completion))
          IN  /\ pc' = AfterDocuments(out)
              /\ main_segments' = out.segments
              /\ m_exc' = out.exc
              /\ run_log' = [run_log EXCEPT
                    !.docs_failed = out.kind = "raise",
                    !.injected = @ \/ out.kind = "raise",
                    \* the call of line 86 is made once the text is not blank
                    !.completions = IF AllReadable(files)
                                       /\ Strip(CombinedText(files)) # <<>>
                                    THEN @ + 1 ELSE @]
    /\ UNCHANGED <<run, temp_dir, m_i, m_segment_idx, m_prompt, tvars, sgvars, stvars>>

\* Lines 68-75: the loop takes segment i and starts tracking it.
StartSegment ==
    /\ pc = "start_segment"
    /\ m_i < Len(main_segments)
    /\ \E io \in IoChoices, t \in ClockReads, sink_raises \in SinkChoices :
          /\ n_faults' = Faults(io, sink_raises)
          /\ start_segment(main_segments[m_i + 1], <<>>, io, t, sink_raises)
          /\ run_log' = [run_log EXCEPT !.n_start = @ + 1,
                                        !.injected = @ \/ io # "ok" \/ sink_raises]
    /\ pc' = IF ret'.kind = "raise" THEN "except" ELSE "generate_sd_prompts"
    /\ m_exc' = ret'.exc
    /\ m_segment_idx' = ret'.idx
    /\ UNCHANGED <<run, temp_dir, main_segments, m_i, m_prompt, n_calls, sgvars, stvars>>

\* Line 78: generate_sd_prompts, one completion call, which can fail.
GenerateSdPrompts ==
    /\ pc = "generate_sd_prompts"
    /\ \E ok \in BOOLEAN :
          /\ m_prompt' = IF ok THEN PromptFor(main_segments[m_i + 1]) ELSE m_prompt
          /\ pc' = IF ok THEN "update_prompt" ELSE "except"
          /\ m_exc' = IF ok THEN m_exc ELSE "APIError"
          /\ run_log' = [run_log EXCEPT !.n_prompt = @ + 1,
                                        !.completions = @ + 1,
                                        !.failed_segment = IF ok THEN @ ELSE m_i]
    /\ UNCHANGED <<run, temp_dir, main_segments, m_i, m_segment_idx, tvars, sgvars, stvars>>

\* update_segment's keyword parameters (its signature, lines 83-87), and
\* whether a call with the keywords `kws` binds to them.
UpdateSegmentKeywords == {"image_path", "audio_path", "video_path"}
Binds(kws) == kws \subseteq UpdateSegmentKeywords

\* Line 81: tracker.update_segment(segment_idx, prompt=prompt).  The call
\* does not bind, Python raises TypeError before update_segment runs, and
\* the pass of the loop ends here: lines 84-147 are never reached.
UpdatePrompt ==
    /\ pc = "update_prompt"
    /\ ~Binds({"prompt"})
    /\ m_exc' = "TypeError"
    /\ pc' = "except"
    /\ UNCHANGED <<run, temp_dir, main_segments, m_i, m_segment_idx, m_prompt, run_log,
                   tvars, sgvars, stvars>>

\* Line 130: tracker.add_feedback(i, feedback).  The index main passes with
\* the feedback on the segment it shows is the loop position i of line 68.
FeedbackIndex == m_i

\* Lines 149-152: the one handler around the whole run.
Except ==
    /\ pc = "except"
    /\ \E io \in IoChoices, t \in ClockReads :
          /\ n_faults' = Faults(io, FALSE)
          /\ log_error(m_exc, io, t)
    /\ pc' = "cleanup"
    /\ m_exc' = None
    /\ UNCHANGED <<run, temp_dir, main_segments, m_i, m_segment_idx, m_prompt, run_log,
                   n_calls, sgvars, stvars>>

\* A variant in which a failed rmtree is not caught.
AfterCleanup_Escapes(ok) == IF ok THEN "save_experiment" ELSE "raised"

\* Where control goes after shutil.rmtree (lines 155-159): its failure is
\* caught and shown as a warning.
AfterCleanup(ok) == "save_experiment"

\* Lines 154-159: remove temp/; rmtree of a directory that is not there fails.
Cleanup ==
    /\ pc = "cleanup"
    /\ \E ok \in (IF temp_dir = "present" THEN BOOLEAN ELSE {FALSE}) :
          /\ temp_dir' = IF ok THEN "absent" ELSE temp_dir
          /\ run_log' = [run_log EXCEPT !.cleanup = IF ok THEN "ok" ELSE "failed"]
          /\ pc' = AfterCleanup(ok)
    /\ UNCHANGED <<run, main_segments, m_i, m_segment_idx, m_prompt, m_exc, tvars, sgvars, stvars>>

\* Where control goes after line 163: an exception skips finish() and is
\* caught by line 165.
AfterFinalSave(kind) == IF kind = "raise" THEN "done" ELSE "finish"

\* Lines 162-163: tracker.save_experiment().
FinalSave ==
    /\ pc = "save_experiment"
    /\ \E io \in IoChoices, t \in ClockReads :
          /\ n_faults' = Faults(io, FALSE)
          /\ save_experiment(io, t)
          /\ run_log' = [run_log EXCEPT !.final_save = IF io = "ok" THEN "ok" ELSE "failed"]
    /\ pc' = AfterFinalSave(ret'.kind)
    /\ UNCHANGED <<run, temp_dir, main_segments, m_i, m_segment_idx, m_prompt, m_exc,
                   n_calls, sgvars, stvars>>

\* Lines 164-166: tracker.finish(); what it raises is caught.
Finish ==
    /\ pc = "finish"
    /\ \E io \in IoChoices, t \in ClockReads :
          /\ n_faults' = Faults(io, FALSE)
          /\ finish(io, t)
    /\ pc' = "done"
    /\ UNCHANGED <<run, temp_dir, main_segments, m_i, m_segment_idx, m_prompt, m_exc,
                   run_log, n_calls, sgvars, stvars>>

Init == TrackerInit /\ SegmenterIdle /\ MainIdle /\ StagesIdle

Next ==
    \/ PressGenerate
    \/ Setup
    \/ ProcessDocuments
    \/ StartSegment
    \/ GenerateSdPrompts
    \/ UpdatePrompt
    \/ Except
    \/ Cleanup
    \/ FinalSave
    \/ Finish

Spec == Init /\ [][Next]_vars

(***************************************************************************)
(* TrackerSpec: the tracker under any client, MaxCalls calls long, in an   *)
(* environment that fails at most MaxFaults times.                         *)
(***************************************************************************)
Texts == {<<"a">>, <<"b">>}
Prompts == {<<>>}
\* update_segment's arguments <<image_path, audio_path, video_path>>.
UpdateArgs ==
    {<<"temp/image_0.png", None, None>>,
     <<"temp/image_0.png", "temp/audio_0.mp3", "temp/segment_0.mp4">>,
     <<"temp/image_1.png", None, None>>,
     <<"", "temp/audio_0.mp3", None>>}
Feedbacks == {Feedback("absent", <<>>), Feedback("true", <<"X">>)}
Indices == -1..1
Messages == {"e1", "e2"}

Counted(io, sink_raises) ==
    /\ n_calls < MaxCalls
    /\ n_calls' = n_calls + 1
    /\ n_faults' = Faults(io, sink_raises)
    /\ UNCHANGED <<sgvars, mvars, stvars>>

CallStartSegment ==
    \E text \in Texts, prompt \in Prompts, io \in IoChoices, t \in ClockReads,
       sink_raises \in SinkChoices :
       /\ Counted(io, sink_raises)
       /\ start_segment(text, prompt, io, t, sink_raises)

CallUpdateSegment ==
    \E idx \in Indices, args \in UpdateArgs, io \in IoChoices,
       t \in ClockReads, sink_raises \in SinkChoices :
       /\ Counted(io, sink_raises)
       /\ update_segment(idx, args[1], args[2], args[3], io, t, sink_raises)

CallAddFeedback ==
    \E idx \in Indices, feedback \in Feedbacks, io \in IoChoices,
       t \in ClockReads, sink_raises \in SinkChoices :
       /\ Counted(io, sink_raises)
       /\ add_feedback(idx, feedback, io, t, sink_raises)

CallLogError ==
    \E error_message \in Messages, io \in IoChoices, t \in ClockReads :
       /\ Counted(io, FALSE)
       /\ log_error(error_message, io, t)

CallLogMetrics ==
    \E io \in IoChoices :
       /\ Counted(io, FALSE)
       /\ log_metrics("m", io)

CallSaveExperiment ==
    \E io \in IoChoices, t \in ClockReads :
       /\ Counted(io, FALSE)
       /\ save_experiment(io, t)

CallFinish ==
    \E io \in IoChoices, t \in ClockReads :
       /\ Counted(io, FALSE)
       /\ finish(io, t)

TrackerNext ==
    \/ CallStartSegment
    \/ CallUpdateSegment
    \/ CallAddFeedback
    \/ CallLogError
    \/ CallLogMetrics
    \/ CallSaveExperiment
    \/ CallFinish

TrackerSpecInit == TrackerInit /\ SegmenterIdle /\ MainIdle /\ StagesIdle

TrackerSpec == TrackerSpecInit /\ [][TrackerNext]_vars

SegmenterSpecInit == TrackerInit /\ SegmenterInit /\ MainIdle /\ StagesIdle

SegmenterSpec == SegmenterSpecInit /\ [][SegmenterNext]_vars

StagesSpecInit == TrackerInit /\ SegmenterIdle /\ MainIdle /\ StagesInit

StagesSpec == StagesSpecInit /\ [][StagesNext]_vars

(***************************************************************************)
(* The claims.                                                             *)
(***************************************************************************)
\* A segment whose three assets were produced and recorded.
Completed(seg) ==
    Truthy(seg.image_path) /\ Truthy(seg.audio_path) /\ Truthy(seg.video_path)

\* Segment j (from 0) of the current run was processed to completion.
Processed(j) ==
    /\ run_log.base + j + 1 <= Len(segments)
    /\ Completed(segments[run_log.base + j + 1])

\* C1: when one stage of segment k fails and nothing else does, the run
\* still processes every other segment to completion and ends with
\* has_error true.
C1_FailureIsolation ==
    (pc = "done" /\ run_log.failed_segment # -1 /\ ~run_log.injected)
    => /\ has_error
       /\ \A j \in 0..(TargetCount - 1) :
             j # run_log.failed_segment => Processed(j)

\* The texts a completion holds, in order: the cores of its filled pieces.
RECURSIVE CoresFrom(_, _, _)
CoresFrom(bits, style, k) ==
    IF k > Len(bits) THEN <<>>
    ELSE (IF bits[k] THEN <<Core(k, style)>> ELSE <<>>) \o CoresFrom(bits, style, k + 1)

Candidates == CoresFrom(sg_completion.bits, sg_completion.style, 1)

\* C2: a completion that holds k >= 1 candidates gives exactly 10 segments:
\* the first 10 candidates in order when k >= 10, else the k candidates
\* followed by 10 - k placeholders.
C2_PadTruncate ==
    (sg_pc = "done" /\ sg_completion.ok /\ Len(Candidates) >= 1)
    => /\ sg_out.kind = "return"
       /\ Len(sg_out.segments) = TargetCount
       /\ \A n \in 1..TargetCount :
             sg_out.segments[n] =
                IF n <= Len(Candidates) THEN Candidates[n] ELSE Placeholder

\* More candidates than segments wanted: the truncating case.
C2_Witness ==
    /\ sg_pc = "done"
    /\ sg_completion.ok
    /\ Len(Candidates) > TargetCount
    /\ sg_out.kind = "return"

\* C3: the N-th start_segment call returns N, and index i keeps denoting
\* the segment whose text was passed to the call that returned i.
C3_StableIndices ==
    \A e \in issued :
       /\ e.index = e.ordinal
       /\ e.index + 1 <= Len(segments)
       /\ segments[e.index + 1].text = e.text

\* Two segments were started, then feedback was attached to one of them.
C3_Witness ==
    /\ Cardinality(issued) >= 2
    /\ call.op = "add_feedback"
    /\ ret.kind = "return"

\* C4: after a mutating call returns, the persisted snapshot equals the
\* in-memory run state: every segment's fields and the has_error flag.
C4_WriteThrough ==
    (call.op \in {"start_segment", "update_segment", "add_feedback", "log_error"}
     /\ ret.kind = "return")
    => /\ state_file.exists
       /\ state_file.intact
       /\ state_file.segments = segments
       /\ "has_error" \in DOMAIN state_file
       /\ state_file.has_error = has_error

\* C5: a run in which nothing fails ends with 10 segments in the run state,
\* each with its prompt and its three paths recorded, and has_error false.
C5_NominalRun ==
    (pc = "done" /\ ~run_log.injected /\ run_log.failed_segment = -1)
    => /\ Len(segments) = run_log.base + TargetCount
       /\ \A j \in 0..(TargetCount - 1) :
             /\ Processed(j)
             /\ segments[run_log.base + j + 1].prompt
                  = PromptFor(segments[run_log.base + j + 1].text)
       /\ ~has_error

\* C6: the video of a segment is handed back as produced, and the next
\* segment's stages start, only after that segment's render has finished.
C6_StrictOrdering ==
    \A n \in 1..Len(st_procs) :
       (st_pc # "create_video_segments" \/ st_k > st_procs[n].seg)
       => st_procs[n].state \in {"exited", "failed"}

\* A step that is a save called right after a save, both having returned.
SecondSave == n_saves >= 1 /\ n_saves' = n_saves + 1

\* C7, as claimed: the second of two saves in a row leaves state.json
\* byte-identical.
C7_ByteIdentical == [][SecondSave => state_file' = state_file]_vars

\* C7, amended: the second of two saves in a row leaves state.json with the
\* same run id and the same segments; its timestamp is the time of the save.
C7_SameButTimestamp ==
    [][SecondSave =>
         /\ state_file'.exists /\ state_file'.intact
         /\ state_file'.run_id = state_file.run_id
         /\ state_file'.segments = state_file.segments
         /\ state_file'.segments = segments
         /\ state_file'.timestamp >= state_file.timestamp]_vars

\* Two saves in a row of a run that holds a segment.
C7_Witness == n_saves >= 2 /\ Len(segments) >= 1

\* C8: add_feedback with the regeneration flag set, on a segment whose
\* assets were all produced, returns true and moves the segment out of its
\* completed state (to be run through the pipeline again).
C8_RegenerationLoop ==
    [][(/\ call'.op = "add_feedback"
        /\ n_calls' = n_calls + 1
        /\ ret'.kind = "return"
        /\ NeedsRegeneration(call'.feedback)
        /\ Completed(segments[PyIndex(segments, call'.idx)]))
       => /\ ret'.flag
          /\ ~Completed(segments'[PyIndex(segments, call'.idx)])]_vars

\* C9: a run that has ended went through the cleanup and then through the
\* final save, whatever failed, and nothing was raised out of main().
C9_CleanupThenFinalSave ==
    /\ pc # "raised"
    /\ run_log.final_save # "none" => run_log.cleanup # "none"
    /\ pc \in {"finish", "done"} =>
          run_log.cleanup # "none" /\ run_log.final_save # "none"

\* A run that ended although both the cleanup and the final save failed.
C9_Witness ==
    pc = "done" /\ run_log.cleanup = "failed" /\ run_log.final_save = "failed"

\* C10: when process_documents fails the run goes straight to the handler:
\* no start_segment and no prompt call is made in it, and has_error is set.
C10_FatalIngestion ==
    run_log.docs_failed
    => /\ pc \in {"except", "cleanup", "save_experiment", "finish", "done"}
       /\ run_log.n_start = 0
       /\ run_log.n_prompt = 0
       /\ Len(segments) = run_log.base
       /\ pc # "except" => has_error

\* A run that ended after process_documents had failed.
C10_Witness == pc = "done" /\ run_log.docs_failed /\ has_error

\* C11: process_documents ends with the empty-input error exactly when the
\* files were all read and their combined text is blank after trimming; it
\* then has not called the completion service.
C11_EmptyInputIff ==
    sg_pc = "done" =>
       /\ (sg_out.kind = "raise" /\ sg_out.exc = EmptyInput)
             <=> (AllReadable(sg_files) /\ Strip(CombinedText(sg_files)) = <<>>)
       /\ (sg_out.kind = "raise" /\ sg_out.exc = EmptyInput) => sg_calls = 0

\* Two readable files that hold only whitespace were refused.
C11_Witness ==
    /\ sg_pc = "done"
    /\ Len(sg_files) = 2
    /\ sg_out.exc = EmptyInput
    /\ sg_calls = 0

\* C12: update_segment with an index outside 0..len(segments)-1, negative
\* ones included, raises IndexError and leaves every segment and the
\* persisted snapshot as they were.
C12_IndexErrorOutOfRange ==
    [][(/\ call'.op = "update_segment"
        /\ n_calls' = n_calls + 1
        /\ (call'.idx < 0 \/ call'.idx >= Len(segments)))
       => /\ ret'.kind = "raise"
          /\ ret'.exc = "IndexError"
          /\ segments' = segments
          /\ state_file' = state_file]_vars

\* C13: once a stage of a segment has completed and control has moved on,
\* its result is in the run state and in the persisted snapshot; here the
\* stage is prompt synthesis, the first of the four.
C13_RecordedAfterEachStage ==
    (/\ pc \in {"except", "cleanup", "save_experiment", "finish", "done"}
     /\ m_segment_idx >= 0
     /\ m_prompt # <<>>)
    => /\ segments[m_segment_idx + 1].prompt = m_prompt
       /\ state_file.exists
       /\ state_file.intact
       /\ state_file.segments[m_segment_idx + 1].prompt = m_prompt

\* C14: artifacts are segment-scoped: a file under temp/ that holds one
\* segment's artifact is never replaced by the artifact of another segment
\* (as it is when two segments are given the same path).
C14_SegmentScopedArtifacts ==
    [][st_pc' # "cleaned"
       => \A f \in st_files :
             \E g \in st_files' : g.path = f.path /\ g.seg = f.seg]_vars

\* C15: for a segment whose image request was sent, prompt synthesis was
\* invoked exactly once and the prompt sent to the image service is the one
\* the caller obtained (and records) for the segment.
C15_PromptOnceAndReused ==
    st_pc \in {"generate_voiceovers", "create_video_segments", "next"}
    => /\ st_prompt_calls = 1
       /\ st_sent = st_prompt

\* C16: when the handler of main() has dealt with an error, the persisted
\* error log ends with an entry holding its message, and so has_error is
\* true only with a persisted log of at least one entry.
C16_ErrorsReachTheLog ==
    [][(pc = "except" /\ pc' = "cleanup")
       => /\ has_error'
          /\ errors_file'.exists
          /\ errors_file'.intact
          /\ Len(errors_file'.errors) >= 1
          /\ errors_file'.errors[Len(errors_file'.errors)].error = m_exc]_vars

\* C17: has_error is false on a new tracker, true after log_error, and no
\* tracker operation sets it back to false.
C17_HasErrorMonotonic ==
    /\ (n_calls = 0 => ~has_error)
    /\ [][/\ has_error => has_error'
          /\ (call'.op = "log_error" /\ n_calls' = n_calls + 1) => has_error'
          /\ (~has_error /\ has_error') => call'.op = "log_error"]_vars

\* An error was logged, and two other operations have been called since.
C17_Witness ==
    /\ has_error
    /\ n_calls >= 3
    /\ call.op \in {"start_segment", "update_segment", "add_feedback",
                    "log_metrics", "save_experiment", "finish"}

\* C18: the persisted error log is append-only: every log_error call adds
\* one entry at the end, and no operation changes or removes the entries
\* the log already holds.
C18_ErrorLogAppendOnly ==
    [][/\ (errors_file.exists /\ errors_file.intact)
            => /\ errors_file'.exists
               /\ errors_file'.intact
               /\ Len(errors_file'.errors) >= Len(errors_file.errors)
               /\ SubSeq(errors_file'.errors, 1, Len(errors_file.errors))
                     = errors_file.errors
       /\ (call'.op = "log_error" /\ n_calls' = n_calls + 1)
            => /\ errors_file'.exists
               /\ errors_file'.intact
               /\ Len(errors_file'.errors)
                     = 1 + (IF errors_file.exists /\ errors_file.intact
                            THEN Len(errors_file.errors) ELSE 0)]_vars

\* C19: an error raised by the dashboard sink never fails start_segment,
\* update_segment, add_feedback, log_error or save_experiment: the call
\* never ends with the sink's error.
C19_SinkNeverFailsCore ==
    call.op \in {"start_segment", "update_segment", "add_feedback",
                 "log_error", "save_experiment"}
    => ret.exc # "SinkError"

\* The state write of the last start_segment call did not go through.
StateWriteFailed ==
    ~(state_file.exists /\ state_file.intact /\ state_file.segments = segments)

\* C20: when the state write inside start_segment fails, the call still
\* returns the new segment's index, with the segment in memory, so that
\* the run goes on.
C20_PersistFailureNonFatal ==
    (call.op = "start_segment" /\ StateWriteFailed)
    => /\ ret.kind = "return"
       /\ Len(segments) = run_log.base + run_log.n_start
       /\ m_segment_idx = Len(segments) - 1

\* C21: when the completion call errors or its output holds no non-empty
\* candidate, process_documents fails with the generation error; what it
\* returns is never empty and never placeholders only.
C21_GenerationError ==
    (sg_pc = "done" /\ sg_calls = 1)
    => /\ (~sg_completion.ok \/ Len(Candidates) = 0)
            => sg_out.kind = "raise" /\ sg_out.exc \in GenerationErrors
       /\ sg_out.kind = "return"
            => /\ Len(sg_out.segments) >= 1
               /\ \E n \in 1..Len(sg_out.segments) : sg_out.segments[n] # Placeholder

\* A completion of several parts, all of them blank, was refused.
C21_Witness ==
    /\ sg_pc = "done"
    /\ sg_completion.ok
    /\ Len(sg_completion.bits) >= 2
    /\ Len(Candidates) = 0
    /\ sg_out.kind = "raise"

\* C22: add_feedback(index, feedback), index in range, stores the feedback
\* on the segment at index and changes nothing else in any segment; when it
\* returns, the snapshot holds the segments as they now are and the value
\* returned is true exactly when the regeneration flag is set.
C22_AddFeedback ==
    [][(/\ call'.op = "add_feedback"
        /\ n_calls' = n_calls + 1
        /\ 0 <= call'.idx
        /\ call'.idx < Len(segments))
       => /\ segments' = [segments EXCEPT ![call'.idx + 1].feedback = call'.feedback]
          /\ ret'.kind = "return"
               => /\ state_file'.exists
                  /\ state_file'.intact
                  /\ state_file'.segments = segments'
                  /\ ret'.flag <=> (call'.feedback.needs_regeneration = "true")]_vars

\* Feedback with the flag set was stored on the first of two segments.
C22_Witness ==
    /\ call.op = "add_feedback"
    /\ call.idx = 0
    /\ ret.kind = "return"
    /\ ret.flag
    /\ Len(segments) = 2
    /\ segments[1].feedback.present
    /\ ~segments[2].feedback.present

\* C23: between two successive calls to the text-completion service in a
\* run the rate-limiting delay is executed: a run never has made more than
\* one call more than it has slept.
C23_RateLimiting == run_log.completions <= run_log.delays + 1

\* C24: a run owns its run state: the tracker a run works with holds the
\* segments that run started and no others.
C24_RunOwnsItsState == Len(segments) <= run_log.n_start

PathFields == {"image_path", "audio_path", "video_path"}

\* C25: update_segment(i, ...) is a partial update: a path field changes
\* only on segment i, only when an argument was supplied for it, and to that
\* argument; a path that was set is never reset to None; the text, prompt,
\* feedback and metrics of every segment, the number of segments and
\* has_error stay as they were.
C25_PartialUpdate ==
    [][(call'.op = "update_segment" /\ n_calls' = n_calls + 1)
       => /\ Len(segments') = Len(segments)
          /\ has_error' = has_error
          /\ \A k \in 1..Len(segments) :
                /\ segments'[k].text = segments[k].text
                /\ segments'[k].prompt = segments[k].prompt
                /\ segments'[k].feedback = segments[k].feedback
                /\ segments'[k].metrics = segments[k].metrics
                /\ \A f \in PathFields :
                      /\ segments'[k][f] # segments[k][f]
                           => /\ call'.idx >= 0 => k = call'.idx + 1
                              /\ call'.paths[f] # None
                              /\ segments'[k][f] = call'.paths[f]
                      /\ segments[k][f] # None => segments'[k][f] # None]_vars

\* A second update of a segment supplied an audio path and kept the image
\* path an earlier update had set.
C25_Witness ==
    /\ call.op = "update_segment"
    /\ ret.kind = "return"
    /\ call.paths.audio_path = "temp/audio_0.mp3"
    /\ call.paths.video_path = None
    /\ Len(segments) = 1
    /\ segments[1].image_path = "temp/image_0.png"
    /\ segments[1].audio_path = "temp/audio_0.mp3"
    /\ segments[1].video_path = None

\* C26: while the loop works on a segment, the index under which main
\* submits feedback for it is the index start_segment returned for it, in a
\* first run and in every later run on the same tracker.
C26_FeedbackIndex ==
    (pc \in {"generate_sd_prompts", "update_prompt"} /\ m_segment_idx >= 0)
    => FeedbackIndex = m_segment_idx

\* C27: the videos are offered for download, and the scratch directory is
\* removed, only when every render process launched has terminated.
C27_RendersEndBeforeCleanup ==
    [][(st_pc' # st_pc /\ st_pc' \in {"download", "cleaned"})
       => \A n \in 1..Len(st_procs) :
             st_procs[n].state \in {"exited", "failed"}]_vars

====
